---------------------------- MODULE Spec2Model ----------------------------
(***************************************************************************)
(* Model of Deploy.py, the release-packaging script of Furious.            *)
(*                                                                         *)
(* Strings are sequences of one-character strings, so that str.lower(),   *)
(* str.endswith(), str.split('.') and f-string concatenation are computed  *)
(* and not assumed.  A path below ROOT_DIR is the sequence of its          *)
(* components; the file system is a function from the existing paths to    *)
(* what is stored there.  The working directory of the process is          *)
(* ROOT_DIR (the build command names Icons/... and Furious relative to     *)
(* it).                                                                    *)
(***************************************************************************)
EXTENDS Integers, Sequences, FiniteSets, TLC

(***************************************************************************)
(* Bounds of the model.                                                    *)
(***************************************************************************)
\* Number of invocations of the script that follow one another on the same
\* file system.
MaxRuns == 2

(***************************************************************************)
(* String helpers.                                                         *)
(***************************************************************************)
Upper == <<"A","B","C","D","E","F","G","H","I","J","K","L","M",
           "N","O","P","Q","R","S","T","U","V","W","X","Y","Z">>

Lowercase == <<"a","b","c","d","e","f","g","h","i","j","k","l","m",
               "n","o","p","q","r","s","t","u","v","w","x","y","z">>

\* str.lower() on one character
LowerChar(c) ==
    IF \E i \in 1..Len(Upper) : Upper[i] = c
    THEN Lowercase[CHOOSE i \in 1..Len(Upper) : Upper[i] = c]
    ELSE c

\* str.lower()
Lower(s) == [i \in 1..Len(s) |-> LowerChar(s[i])]

\* str.endswith(suffix)
EndsWith(s, suffix) ==
    /\ Len(suffix) <= Len(s)
    /\ SubSeq(s, Len(s) - Len(suffix) + 1, Len(s)) = suffix

\* p is a prefix of q (q lies at or below the path p)
IsPrefix(p, q) == Len(p) <= Len(q) /\ SubSeq(q, 1, Len(p)) = p

Digits == <<"0","1","2","3","4","5","6","7","8","9">>

\* int() of one decimal digit
DigitValue(c) == (CHOOSE i \in 1..Len(Digits) : Digits[i] = c) - 1

\* int() of a decimal numeral
RECURSIVE ToInt(_)
ToInt(s) ==
    IF s = <<>> THEN 0
    ELSE 10 * ToInt(SubSeq(s, 1, Len(s) - 1)) + DigitValue(s[Len(s)])

\* str.split(sep) for a one-character separator
RECURSIVE Split(_, _)
Split(s, sep) ==
    IF \A i \in 1..Len(s) : s[i] # sep THEN <<s>>
    ELSE LET k == CHOOSE i \in 1..Len(s) :
                     s[i] = sep /\ \A j \in 1..(i - 1) : s[j] # sep
         IN  <<SubSeq(s, 1, k - 1)>> \o Split(SubSeq(s, k + 1, Len(s)), sep)

(***************************************************************************)
(* Names imported from Furious.Utility.                                    *)
(***************************************************************************)
APPLICATION_NAME == <<"F","u","r","i","o","u","s">>

APPLICATION_VERSION == <<"0",".","4",".","2">>

XRAY_ASSET_DIR == <<"a","s","s","e","t","s">>

\* versionToValue(version): the dot-separated components as numbers
versionToValue(version) ==
    LET parts == Split(version, ".")
    IN  [i \in 1..Len(parts) |-> ToInt(parts[i])]

\* a <= b on version values: component by component, numerically
RECURSIVE ValueLE(_, _)
ValueLE(a, b) ==
    IF a = <<>> THEN TRUE
    ELSE IF b = <<>> THEN FALSE
    ELSE IF a[1] # b[1] THEN a[1] < b[1]
    ELSE ValueLE(Tail(a), Tail(b))

sWindows == <<"W","i","n","d","o","w","s">>

sDarwin == <<"D","a","r","w","i","n">>

sLinux == <<"L","i","n","u","x">>

sServer == <<"S","e","r","v","e","r">>

\* platform.release() on the Windows hosts of the model
WindowsReleases ==
    { <<"1","0">>, <<"1","1">>,
      <<"2","0","1","9">> \o sServer, <<"2","0","2","2">> \o sServer }

sDarwinRelease == <<"2","3",".","1",".","0">>

sLinuxRelease == <<"6",".","1">>

\* PySide6 versions on the Darwin hosts of the model
PySideVersions ==
    { <<"5",".","1","5",".","2">>, <<"6",".","4",".","2">>,
      <<"6",".","4",".","3">>, <<"6",".","4",".","1","0">>,
      <<"6",".","5",".","0">>, <<"6",".","1","0",".","0">> }

sPySideOther == <<"6",".","6",".","1">>

VARIABLES
    PLATFORM,           \* platform.system()
    PLATFORM_RELEASE,   \* platform.release()
    PLATFORM_MACHINE,   \* platform.machine()
    PYSIDE6_VERSION,    \* version of the installed PySide6
    args,               \* the parsed command line of the running invocation
    pc,                 \* position of the running invocation in main()
    fs,                 \* the file system below ROOT_DIR
    exitCode,           \* exit status of the invocation once it has ended
    uncaught,           \* the exception that ended it, "none" otherwise
    calls,              \* commands given to runExternalCommand, in order
    trace,              \* steps the invocation has executed, in order
    dl,                 \* downloadXrayAssets calls made: file, outcome, result
    cl,                 \* removals cleanup() attempted: target, ok
    toolRc,             \* return codes of the external tools, in order
    deploySnap,         \* deployment directory when the build tool returned
    built,              \* files the build tool produced in this invocation
    created,            \* paths the last completed Build->Package run created
    prev,               \* what the previous invocation did and produced
    runs                \* number of invocations started

vars == <<PLATFORM, PLATFORM_RELEASE, PLATFORM_MACHINE, PYSIDE6_VERSION, args,
          pc, fs, exitCode, uncaught, calls, trace, dl, cl, toolRc,
          deploySnap, built, created, prev, runs>>

platformVars == <<PLATFORM, PLATFORM_RELEASE, PLATFORM_MACHINE, PYSIDE6_VERSION>>


(***************************************************************************)
(* Module-level names of Deploy.py.                                        *)
(***************************************************************************)
sDash == <<"-">>

DEPLOY_DIR_NAME == APPLICATION_NAME \o <<"-","D","e","p","l","o","y">>

\* The command line of the build; "" on a platform that is neither Windows
\* nor Darwin.
NUITKA_BUILD ==
    IF PLATFORM = sWindows
    THEN "python -m nuitka --standalone --windows-icon-from-ico Furious"
    ELSE IF PLATFORM = sDarwin
    THEN "python -m nuitka --standalone --macos-create-app-bundle Furious-GUI.py"
    ELSE ""

CREATE_DMG == "create-dmg --volname Furious"

sThreshold == <<"6",".","4",".","3">>

sMacOld == <<"m","a","c","O","S","-","1","0",".","9">>

sMacNew == <<"m","a","c","O","S","-","1","1",".","0">>

\* ARTIFACT_NAME with the threshold version itself on the newer side
ARTIFACT_NAME_strict ==
    IF PLATFORM = sWindows
    THEN IF EndsWith(PLATFORM_RELEASE, sServer)
         THEN APPLICATION_NAME \o sDash \o APPLICATION_VERSION \o sDash
              \o Lower(PLATFORM) \o <<"1","0">> \o sDash \o Lower(PLATFORM_MACHINE)
         ELSE APPLICATION_NAME \o sDash \o APPLICATION_VERSION \o sDash
              \o Lower(PLATFORM) \o PLATFORM_RELEASE \o sDash
              \o Lower(PLATFORM_MACHINE)
    ELSE IF PLATFORM = sDarwin
    THEN IF /\ ValueLE(versionToValue(PYSIDE6_VERSION), versionToValue(sThreshold))
            /\ versionToValue(PYSIDE6_VERSION) # versionToValue(sThreshold)
         THEN APPLICATION_NAME \o sDash \o APPLICATION_VERSION \o sDash
              \o sMacOld \o sDash \o Lower(PLATFORM_MACHINE)
         ELSE APPLICATION_NAME \o sDash \o APPLICATION_VERSION \o sDash
              \o sMacNew \o sDash \o Lower(PLATFORM_MACHINE)
    ELSE <<>>

ARTIFACT_NAME ==
    IF PLATFORM = sWindows
    THEN IF EndsWith(PLATFORM_RELEASE, sServer)
         THEN \* Windows server. Fixed to windows10
              APPLICATION_NAME \o sDash \o APPLICATION_VERSION \o sDash
              \o Lower(PLATFORM) \o <<"1","0">> \o sDash \o Lower(PLATFORM_MACHINE)
         ELSE APPLICATION_NAME \o sDash \o APPLICATION_VERSION \o sDash
              \o Lower(PLATFORM) \o PLATFORM_RELEASE \o sDash
              \o Lower(PLATFORM_MACHINE)
    ELSE IF PLATFORM = sDarwin
    THEN IF ValueLE(versionToValue(PYSIDE6_VERSION), versionToValue(sThreshold))
         THEN APPLICATION_NAME \o sDash \o APPLICATION_VERSION \o sDash
              \o sMacOld \o sDash \o Lower(PLATFORM_MACHINE)
         ELSE APPLICATION_NAME \o sDash \o APPLICATION_VERSION \o sDash
              \o sMacNew \o sDash \o Lower(PLATFORM_MACHINE)
    ELSE <<>>

\* foldername with the literal release string on every Windows host
foldername_literal ==
    APPLICATION_NAME \o sDash \o APPLICATION_VERSION \o sDash
    \o Lower(PLATFORM) \o PLATFORM_RELEASE

\* main(): the directory the Windows build is copied to and archived from
foldername ==
    IF EndsWith(PLATFORM_RELEASE, sServer)
    THEN APPLICATION_NAME \o sDash \o APPLICATION_VERSION \o sDash
         \o Lower(PLATFORM) \o <<"1","0">>
    ELSE APPLICATION_NAME \o sDash \o APPLICATION_VERSION \o sDash
         \o Lower(PLATFORM) \o PLATFORM_RELEASE

\* Paths below ROOT_DIR
deployDir == <<DEPLOY_DIR_NAME>>

distDir == <<DEPLOY_DIR_NAME, APPLICATION_NAME \o <<".","d","i","s","t">>>>

sBundle == <<"F","u","r","i","o","u","s","-","G","U","I",".","a","p","p">>

bundleDir == <<DEPLOY_DIR_NAME, sBundle>>

stagedDir == <<DEPLOY_DIR_NAME, foldername>>

zipPath == <<ARTIFACT_NAME \o <<".","z","i","p">>>>

dmgPath == <<ARTIFACT_NAME \o <<".","d","m","g">>>>

appDir == << <<"a","p","p">> >>

dmgDir == << <<"d","m","g">> >>

\* cleanup(): the "potential unzipped dir" below ROOT_DIR
unzippedDir ==
    << APPLICATION_NAME \o sDash \o APPLICATION_VERSION \o sDash
       \o Lower(PLATFORM) \o PLATFORM_RELEASE >>

assetDir == <<XRAY_ASSET_DIR>>

(***************************************************************************)
(* The file system.                                                        *)
(***************************************************************************)
Dir == [kind |-> "dir"]

File(d) == [kind |-> "file", data |-> d]

Below(f, p) == {q \in DOMAIN f : IsPrefix(p, q)}

Restrict(f, S) == [q \in S |-> f[q]]

\* the tree at p, its paths relative to p
Subtree(f, p) ==
    [r \in {SubSeq(q, Len(p) + 1, Len(q)) : q \in Below(f, p)} |-> f[p \o r]]

Ancestors(p) == {SubSeq(p, 1, k) : k \in 1..(Len(p) - 1)}

\* the tree t placed at p, missing parents of p created
Graft(f, p, t) ==
    LET new == {p \o r : r \in DOMAIN t}
    IN  [q \in DOMAIN f \cup Ancestors(p) \cup new |->
            IF q \in new THEN t[SubSeq(q, Len(p) + 1, Len(q))]
            ELSE IF q \in DOMAIN f THEN f[q]
            ELSE Dir]

\* shutil.rmtree(p); denied: the operating system refuses the removal
rmtree(f, p, denied) ==
    IF p \notin DOMAIN f THEN [fs |-> f, exc |-> "FileNotFoundError"]
    ELSE IF f[p].kind # "dir" THEN [fs |-> f, exc |-> "NotADirectoryError"]
    ELSE IF denied THEN [fs |-> f, exc |-> "PermissionError"]
    ELSE [fs |-> Restrict(f, DOMAIN f \ Below(f, p)), exc |-> "none"]

\* os.remove(p)
remove(f, p, denied) ==
    IF p \notin DOMAIN f THEN [fs |-> f, exc |-> "FileNotFoundError"]
    ELSE IF f[p].kind = "dir" THEN [fs |-> f, exc |-> "IsADirectoryError"]
    ELSE IF denied THEN [fs |-> f, exc |-> "PermissionError"]
    ELSE [fs |-> Restrict(f, DOMAIN f \ {p}), exc |-> "none"]

\* os.mkdir(p)
mkdir(f, p) ==
    IF p \in DOMAIN f THEN [fs |-> f, exc |-> "FileExistsError"]
    ELSE [fs |-> Graft(f, p, <<>> :> Dir), exc |-> "none"]

\* shutil.copytree(src, dst)
copytree(f, src, dst) ==
    IF src \notin DOMAIN f THEN [fs |-> f, exc |-> "FileNotFoundError"]
    ELSE IF dst \in DOMAIN f THEN [fs |-> f, exc |-> "FileExistsError"]
    ELSE [fs |-> Graft(f, dst, Subtree(f, src)), exc |-> "none"]

\* shutil.make_archive(base_name, 'zip', root_dir, base_dir): the archive
\* holds the tree at root_dir/base_dir under the name base_dir and replaces
\* any file of its name
make_archive(f, archive, root_dir, base_dir) ==
    IF root_dir \o <<base_dir>> \notin DOMAIN f
    THEN [fs |-> f, exc |-> "FileNotFoundError"]
    ELSE LET t == Subtree(f, root_dir \o <<base_dir>>)
             entries == [e \in {<<base_dir>> \o r : r \in DOMAIN t} |->
                            t[SubSeq(e, 2, Len(e))]]
         IN  [fs |-> Graft(f, archive, <<>> :> File(entries)), exc |-> "none"]


(***************************************************************************)
(* downloadXrayAssets() and download().                                    *)
(***************************************************************************)
sGeosite == <<"g","e","o","s","i","t","e",".","d","a","t">>

sGeoip == <<"g","e","o","i","p",".","d","a","t">>

\* What happens to one download: everything works, the server answers with
\* a non-success status, the GET itself fails, os.makedirs fails when it is
\* called, writing the file fails, or the requests module is not installed.
DownloadOutcomes ==
    {"ok", "http_error", "transport_error", "makedirs_error", "write_error",
     "import_error"}

\* Returns the file system, the returned value and the exception that left
\* the function ("none" when it returned).  The except block reads
\* response.status_code: when the failure struck before response was
\* assigned, that read raises UnboundLocalError out of the handler.
downloadXrayAssets(f, filename, outcome) ==
    IF outcome = "import_error"
    THEN [fs |-> f, result |-> FALSE, exc |-> "ModuleNotFoundError"]
    ELSE IF assetDir \notin DOMAIN f /\ outcome = "makedirs_error"
    THEN [fs |-> f, result |-> FALSE, exc |-> "UnboundLocalError"]
    ELSE LET f1 == IF assetDir \in DOMAIN f THEN f
                   ELSE Graft(f, assetDir, <<>> :> Dir)
         IN  IF outcome = "transport_error"
             THEN [fs |-> f1, result |-> FALSE, exc |-> "UnboundLocalError"]
             ELSE IF outcome \in {"http_error", "write_error"}
             THEN [fs |-> f1, result |-> FALSE, exc |-> "none"]
             ELSE [fs |-> Graft(f1, assetDir \o <<filename>>,
                                <<>> :> File("response.content")),
                   result |-> TRUE, exc |-> "none"]

DlEntry(filename, outcome, r) ==
    [file |-> filename, outcome |-> outcome,
     result |-> IF r.exc # "none" THEN "raise"
                ELSE IF r.result THEN "True" ELSE "False"]

\* download() with `a and b` in place of all([a, b])
download_shortcircuit(f, o1, o2) ==
    LET r1 == downloadXrayAssets(f, sGeosite, o1)
        r2 == downloadXrayAssets(r1.fs, sGeoip, o2)
    IN  IF r1.exc # "none"
        THEN [fs |-> r1.fs, result |-> FALSE, exc |-> r1.exc,
              log |-> <<DlEntry(sGeosite, o1, r1)>>]
        ELSE IF ~r1.result
        THEN [fs |-> r1.fs, result |-> FALSE, exc |-> "none",
              log |-> <<DlEntry(sGeosite, o1, r1)>>]
        ELSE [fs |-> r2.fs, result |-> r2.result /\ r2.exc = "none",
              exc |-> r2.exc,
              log |-> <<DlEntry(sGeosite, o1, r1), DlEntry(sGeoip, o2, r2)>>]

\* download(): the list of both results is built before all() reads it; an
\* exception out of the first call leaves before the second is made
download(f, o1, o2) ==
    LET r1 == downloadXrayAssets(f, sGeosite, o1)
        r2 == downloadXrayAssets(r1.fs, sGeoip, o2)
    IN  IF r1.exc # "none"
        THEN [fs |-> r1.fs, result |-> FALSE, exc |-> r1.exc,
              log |-> <<DlEntry(sGeosite, o1, r1)>>]
        ELSE [fs |-> r2.fs,
              result |-> r1.result /\ r2.result /\ r2.exc = "none",
              exc |-> r2.exc,
              log |-> <<DlEntry(sGeosite, o1, r1), DlEntry(sGeoip, o2, r2)>>]

(***************************************************************************)
(* cleanup().                                                              *)
(***************************************************************************)
ClEntry(path, r) == [target |-> path, ok |-> r.exc = "none"]

\* cleanup() without the try/except around each removal
cleanup_unguarded(f, denied) ==
    LET r1 == rmtree(f, deployDir, 1 \in denied)
        second == IF PLATFORM = sWindows THEN zipPath ELSE dmgPath
        third == IF PLATFORM = sWindows THEN unzippedDir ELSE dmgDir
        r2 == remove(r1.fs, second, 2 \in denied)
        r3 == rmtree(r2.fs, third, 3 \in denied)
    IN  IF r1.exc # "none" \/ PLATFORM \notin {sWindows, sDarwin}
        THEN [fs |-> r1.fs, exc |-> r1.exc, log |-> <<ClEntry(deployDir, r1)>>]
        ELSE IF r2.exc # "none"
        THEN [fs |-> r2.fs, exc |-> r2.exc,
              log |-> <<ClEntry(deployDir, r1), ClEntry(second, r2)>>]
        ELSE [fs |-> r3.fs, exc |-> r3.exc,
              log |-> <<ClEntry(deployDir, r1), ClEntry(second, r2),
                        ClEntry(third, r3)>>]

\* cleanup(): denied is the set of removals (first, second, third) the
\* operating system refuses.  Every exception of a removal is caught and
\* logged.
cleanup(f, denied) ==
    LET r1 == rmtree(f, deployDir, 1 \in denied)
    IN  IF PLATFORM = sWindows
        THEN LET r2 == remove(r1.fs, zipPath, 2 \in denied)
                 r3 == rmtree(r2.fs, unzippedDir, 3 \in denied)
             IN  [fs |-> r3.fs, exc |-> "none",
                  log |-> <<ClEntry(deployDir, r1), ClEntry(zipPath, r2),
                            ClEntry(unzippedDir, r3)>>]
        ELSE IF PLATFORM = sDarwin
        THEN LET r2 == remove(r1.fs, dmgPath, 2 \in denied)
                 r3 == rmtree(r2.fs, dmgDir, 3 \in denied)
             IN  [fs |-> r3.fs, exc |-> "none",
                  log |-> <<ClEntry(deployDir, r1), ClEntry(dmgPath, r2),
                            ClEntry(dmgDir, r3)>>]
        ELSE [fs |-> r1.fs, exc |-> "none",
              log |-> <<ClEntry(deployDir, r1)>>]


(***************************************************************************)
(* The external tools: what runExternalCommand leaves behind.              *)
(***************************************************************************)
ReturnCodes == {0, 2}

sExe == <<"F","u","r","i","o","u","s",".","b","i","n">>

sLib == <<"l","i","b">>

sOld == <<"o","l","d">>

\* The sets of files a build may produce
BuildOutputs == {{sExe}, {sExe, sLib}}

ToolTree(out) ==
    [r \in {<<>>} \cup {<<n>> : n \in out} |->
        IF r = <<>> THEN Dir ELSE File("built")]

StaleTree == ToolTree({sExe, sOld})

Supported == PLATFORM \in {sWindows, sDarwin}

\* Where the build writes its result
buildTarget == IF PLATFORM = sWindows THEN distDir ELSE bundleDir

WithoutTree(f, p) == Restrict(f, DOMAIN f \ Below(f, p))

\* The build command run by the shell.  The empty command runs nothing and
\* writes nothing.  A failing build leaves the output directory as it was or
\* with an emptied result directory.
BuildEffect(f, rc, out, partial) ==
    IF ~Supported THEN f
    ELSE IF rc = 0
    THEN Graft(WithoutTree(f, buildTarget), buildTarget, ToolTree(out))
    ELSE IF partial
    THEN Graft(WithoutTree(f, buildTarget), buildTarget, ToolTree({}))
    ELSE f

\* create-dmg: the image holds the tree of the staging directory
DmgEffect(f, rc) ==
    IF rc = 0 THEN Graft(f, dmgPath, <<>> :> File(Subtree(f, appDir)))
    ELSE f

DeployTree(f) == IF deployDir \in DOMAIN f THEN Subtree(f, deployDir) ELSE <<>>

NoArtifact == [kind |-> "none"]

\* The artifact file of this platform, if there is one
Artifact(f) ==
    IF PLATFORM = sWindows /\ zipPath \in DOMAIN f THEN f[zipPath]
    ELSE IF PLATFORM = sDarwin /\ dmgPath \in DOMAIN f THEN f[dmgPath]
    ELSE NoArtifact

(***************************************************************************)
(* main().                                                                 *)
(***************************************************************************)
\* the mode with --download tested before --cleanup
mode_downloadFirst(a) ==
    IF a.download THEN "download"
    ELSE IF a.cleanup THEN "cleanup"
    ELSE "build"

\* The branch of main() the parsed arguments select
mode(a) ==
    IF a.cleanup THEN "cleanup"
    ELSE IF a.download THEN "download"
    ELSE "build"

\* the build's handler without its sys.exit(-1)
afterBuild_noExit(rc) == "package"

\* check=True raises CalledProcessError on a non-zero return code; the
\* handler logs and calls sys.exit(-1), the else branch goes on to package
afterBuild(rc) == IF rc # 0 THEN "exit" ELSE "package"

\* the removal of a stale staging directory with every exception swallowed
removeStale_swallow(f, p, denied) ==
    LET r == rmtree(f, p, denied)
    IN  [fs |-> r.fs, exc |-> r.exc, raised |-> "none"]

\* try: shutil.rmtree(p) / except FileNotFoundError: pass / except
\* Exception: raise
removeStale(f, p, denied) ==
    LET r == rmtree(f, p, denied)
    IN  [fs |-> r.fs, exc |-> r.exc,
         raised |-> IF r.exc = "FileNotFoundError" THEN "none" ELSE r.exc]

\* The process ends: sys.exit(code), the return of main(), or an exception
\* nobody catches (the interpreter then exits with status 1)
Ended(code, exc) ==
    /\ pc' = "exited"
    /\ exitCode' = <<code>>
    /\ uncaught' = exc

Continue(next) ==
    /\ pc' = next
    /\ UNCHANGED <<exitCode, uncaught>>

Step(op, exc) == trace' = Append(trace, [op |-> op, exc |-> exc])

\* A step of the packaging that raises exc or goes on to next
Proceed(exc, next) ==
    IF exc # "none" THEN Ended(1, exc) ELSE Continue(next)

\* if args.cleanup: cleanup(); sys.exit(0)
MainCleanup ==
    /\ pc = "start"
    /\ mode(args) = "cleanup"
    /\ \E denied \in SUBSET (1..3) :
          LET r == cleanup(fs, denied)
          IN  /\ fs' = r.fs
              /\ cl' = r.log
              /\ Step("cleanup", r.exc)
              /\ IF r.exc = "none" THEN Ended(0, "none") ELSE Ended(1, r.exc)
    /\ UNCHANGED <<platformVars, args, calls, dl, toolRc, deploySnap, built,
                   created, prev, runs>>

\* if args.download: sys.exit(0 if download() else 1)
MainDownload ==
    /\ pc = "start"
    /\ mode(args) = "download"
    /\ \E o1 \in DownloadOutcomes, o2 \in DownloadOutcomes :
          LET r == download(fs, o1, o2)
          IN  /\ fs' = r.fs
              /\ dl' = r.log
              /\ Step("download", r.exc)
              /\ IF r.exc # "none" THEN Ended(1, r.exc)
                 ELSE Ended(IF r.result THEN 0 ELSE 1, "none")
    /\ UNCHANGED <<platformVars, args, calls, cl, toolRc, deploySnap, built,
                   created, prev, runs>>

\* try: import nuitka / except ImportError: raise ModuleNotFoundError
ImportNuitka ==
    /\ pc = "start"
    /\ mode(args) = "build"
    /\ \E installed \in BOOLEAN :
          LET exc == IF installed THEN "none" ELSE "ModuleNotFoundError"
          IN  /\ Step("import nuitka", exc)
              /\ Proceed(exc, "build")
    /\ UNCHANGED <<platformVars, args, fs, calls, dl, cl, toolRc, deploySnap,
                   built, created, prev, runs>>

\* runExternalCommand(NUITKA_BUILD, ..., shell=True, check=True)
RunBuild ==
    /\ pc = "build"
    /\ \E rc \in ReturnCodes, out \in BuildOutputs, partial \in BOOLEAN :
          /\ ~Supported => rc = 0
          /\ LET f1 == BuildEffect(fs, rc, out, partial)
             IN  /\ fs' = f1
                 /\ deploySnap' = DeployTree(f1)
                 /\ built' = IF rc = 0 /\ Supported THEN ToolTree(out) ELSE <<>>
          /\ calls' = Append(calls, NUITKA_BUILD)
          /\ toolRc' = Append(toolRc, rc)
          /\ Step("build", IF rc # 0 THEN "CalledProcessError" ELSE "none")
          /\ IF afterBuild(rc) = "exit" THEN Ended(-1, "none")
             ELSE Continue("package")
    /\ created' = {}
    /\ UNCHANGED <<platformVars, args, dl, cl, prev, runs>>

\* Windows: shutil.rmtree(ROOT_DIR / DEPLOY_DIR_NAME / foldername)
WinRemoveStale ==
    /\ pc = "package"
    /\ PLATFORM = sWindows
    /\ \E denied \in BOOLEAN :
          LET r == removeStale(fs, stagedDir, denied)
          IN  /\ fs' = r.fs
              /\ Step("rmtree", r.exc)
              /\ Proceed(r.raised, "win_copy")
    /\ UNCHANGED <<platformVars, args, calls, dl, cl, toolRc, deploySnap,
                   built, created, prev, runs>>

\* Windows: shutil.copytree(<deploy>/Furious.dist, <deploy>/foldername)
WinCopytree ==
    /\ pc = "win_copy"
    /\ LET r == copytree(fs, distDir, stagedDir)
       IN  /\ fs' = r.fs
           /\ Step("copytree", r.exc)
           /\ Proceed(r.exc, "win_zip")
    /\ UNCHANGED <<platformVars, args, calls, dl, cl, toolRc, deploySnap,
                   built, created, prev, runs>>

\* Windows: shutil.make_archive(ARTIFACT_NAME, 'zip', <deploy>, foldername);
\* main() then returns
WinMakeArchive ==
    /\ pc = "win_zip"
    /\ LET r == make_archive(fs, zipPath, deployDir, foldername)
       IN  /\ fs' = r.fs
           /\ Step("make_archive", r.exc)
           /\ IF r.exc # "none" THEN Ended(1, r.exc) ELSE Ended(0, "none")
           /\ created' = IF r.exc # "none" THEN {}
                         ELSE {deployDir, distDir, stagedDir, zipPath}
    /\ UNCHANGED <<platformVars, args, calls, dl, cl, toolRc, deploySnap,
                   built, prev, runs>>

\* Darwin: shutil.rmtree(appDir)
MacRemoveStale ==
    /\ pc = "package"
    /\ PLATFORM = sDarwin
    /\ \E denied \in BOOLEAN :
          LET r == removeStale(fs, appDir, denied)
          IN  /\ fs' = r.fs
              /\ Step("rmtree", r.exc)
              /\ Proceed(r.raised, "mac_mkdir")
    /\ UNCHANGED <<platformVars, args, calls, dl, cl, toolRc, deploySnap,
                   built, created, prev, runs>>

\* Darwin: os.mkdir(appDir)
MacMkdir ==
    /\ pc = "mac_mkdir"
    /\ LET r == mkdir(fs, appDir)
       IN  /\ fs' = r.fs
           /\ Step("mkdir", r.exc)
           /\ Proceed(r.exc, "mac_copy")
    /\ UNCHANGED <<platformVars, args, calls, dl, cl, toolRc, deploySnap,
                   built, created, prev, runs>>

\* Darwin: shutil.copytree(<deploy>/Furious-GUI.app, appDir/Furious-GUI.app)
MacCopytree ==
    /\ pc = "mac_copy"
    /\ LET r == copytree(fs, bundleDir, appDir \o <<sBundle>>)
       IN  /\ fs' = r.fs
           /\ Step("copytree", r.exc)
           /\ Proceed(r.exc, "mac_dmg")
    /\ UNCHANGED <<platformVars, args, calls, dl, cl, toolRc, deploySnap,
                   built, created, prev, runs>>

\* Darwin: runExternalCommand('create-dmg ...', shell=True, check=True);
\* sys.exit(-1) on CalledProcessError, else main() returns
MacCreateDmg ==
    /\ pc = "mac_dmg"
    /\ \E rc \in ReturnCodes :
          /\ fs' = DmgEffect(fs, rc)
          /\ calls' = Append(calls, CREATE_DMG)
          /\ toolRc' = Append(toolRc, rc)
          /\ Step("create-dmg", IF rc # 0 THEN "CalledProcessError" ELSE "none")
          /\ IF rc # 0 THEN Ended(-1, "none") ELSE Ended(0, "none")
          /\ created' = IF rc # 0 THEN {}
                        ELSE {deployDir, bundleDir, appDir,
                              appDir \o <<sBundle>>, dmgPath}
    /\ UNCHANGED <<platformVars, args, dl, cl, deploySnap, built, prev, runs>>

\* Neither Windows nor Darwin: nothing follows the build, main() returns
OtherReturn ==
    /\ pc = "package"
    /\ ~Supported
    /\ Step("return", "none")
    /\ Ended(0, "none")
    /\ UNCHANGED <<platformVars, args, fs, calls, dl, cl, toolRc, deploySnap,
                   built, created, prev, runs>>

NoRun ==
    [trace |-> <<>>, exitCode |-> <<>>, uncaught |-> "none", built |-> <<>>,
     artifact |-> NoArtifact]

\* The script is started again on the file system the last run left
Invoke ==
    /\ pc = "exited"
    /\ runs < MaxRuns
    /\ \E c \in BOOLEAN, d \in BOOLEAN : args' = [cleanup |-> c, download |-> d]
    /\ prev' = [trace |-> trace, exitCode |-> exitCode, uncaught |-> uncaught,
                built |-> built, artifact |-> Artifact(fs)]
    /\ runs' = runs + 1
    /\ pc' = "start"
    /\ exitCode' = <<>>
    /\ uncaught' = "none"
    /\ calls' = <<>>
    /\ trace' = <<>>
    /\ dl' = <<>>
    /\ cl' = <<>>
    /\ toolRc' = <<>>
    /\ deploySnap' = <<>>
    /\ built' = <<>>
    /\ UNCHANGED <<platformVars, fs, created>>

(***************************************************************************)
(* The hosts and the file systems a first invocation may find.             *)
(***************************************************************************)
Hosts ==
    {[platform |-> sWindows, release |-> r, machine |-> <<"A","M","D","6","4">>,
      pyside |-> sPySideOther] : r \in WindowsReleases}
    \cup {[platform |-> sDarwin, release |-> sDarwinRelease,
           machine |-> <<"a","r","m","6","4">>, pyside |-> v] : v \in PySideVersions}
    \cup {[platform |-> sLinux, release |-> sLinuxRelease,
           machine |-> <<"x","8","6","_","6","4">>, pyside |-> sPySideOther]}

Leftovers == {"none", "extracted", "staged"}

\* none: an empty tree.  extracted: the directory cleanup() takes for a
\* leftover (an unzipped archive, a dmg directory).  staged: a staging
\* directory of an earlier build, holding a file the build no longer makes.
InitialFs(k) ==
    IF k = "none" \/ ~Supported THEN <<>>
    ELSE IF k = "extracted"
    THEN Graft(<<>>, IF PLATFORM = sWindows THEN unzippedDir ELSE dmgDir, StaleTree)
    ELSE Graft(<<>>, IF PLATFORM = sWindows THEN stagedDir ELSE appDir, StaleTree)

Init ==
    /\ \E h \in Hosts :
          /\ PLATFORM = h.platform
          /\ PLATFORM_RELEASE = h.release
          /\ PLATFORM_MACHINE = h.machine
          /\ PYSIDE6_VERSION = h.pyside
    /\ \E k \in Leftovers : fs = InitialFs(k)
    /\ \E c \in BOOLEAN, d \in BOOLEAN : args = [cleanup |-> c, download |-> d]
    /\ pc = "start"
    /\ exitCode = <<>>
    /\ uncaught = "none"
    /\ calls = <<>>
    /\ trace = <<>>
    /\ dl = <<>>
    /\ cl = <<>>
    /\ toolRc = <<>>
    /\ deploySnap = <<>>
    /\ built = <<>>
    /\ created = {}
    /\ prev = NoRun
    /\ runs = 1

Next ==
    \/ MainCleanup
    \/ MainDownload
    \/ ImportNuitka
    \/ RunBuild
    \/ WinRemoveStale
    \/ WinCopytree
    \/ WinMakeArchive
    \/ MacRemoveStale
    \/ MacMkdir
    \/ MacCopytree
    \/ MacCreateDmg
    \/ OtherReturn
    \/ Invoke

Spec == Init /\ [][Next]_vars


(***************************************************************************)
(* Properties.                                                             *)
(***************************************************************************)
Exited == pc = "exited"

InTrace(op) == \E i \in DOMAIN trace : trace[i].op = op

Failed(op) ==
    \E i \in DOMAIN trace : trace[i].op = op /\ trace[i].exc = "CalledProcessError"

LastOp == trace[Len(trace)].op

PackagingOps == {"rmtree", "mkdir", "copytree", "make_archive", "create-dmg"}

\* C1: on a platform that is neither Windows nor Darwin no command is ever
\* given to runExternalCommand.
C1_NoExternalCallOnOther == ~Supported => calls = <<>>

\* C2: a download whose GET itself fails is an ordinary failure: the task
\* returns False, nothing is raised, both tasks are attempted and the process
\* exits with code 1.
C2_TransportErrorIsOrdinaryFailure ==
    \A i \in DOMAIN dl :
        dl[i].outcome = "transport_error" =>
            /\ dl[i].result = "False"
            /\ uncaught = "none"
            /\ Len(dl) = 2
            /\ exitCode = <<1>>

HttpOutcomes == {"ok", "http_error"}

\* C3: when each attempted download ends with a success or a non-success
\* HTTP status, both geosite.dat and geoip.dat are attempted, each succeeds
\* exactly when its status is a success, and the exit code is 0 when both
\* succeeded and 1 otherwise.
C3_DownloadAllOrNothing ==
    ( /\ InTrace("download")
      /\ \A i \in DOMAIN dl : dl[i].outcome \in HttpOutcomes )
    => /\ Exited
       /\ uncaught = "none"
       /\ Len(dl) = 2
       /\ dl[1].file = sGeosite
       /\ dl[2].file = sGeoip
       /\ \A i \in DOMAIN dl :
             dl[i].result = (IF dl[i].outcome = "ok" THEN "True" ELSE "False")
       /\ exitCode = <<IF dl[1].result = "True" /\ dl[2].result = "True"
                       THEN 0 ELSE 1>>

C3_Witness ==
    /\ Exited
    /\ Len(dl) = 2
    /\ dl[1].outcome = "http_error"
    /\ dl[2].outcome = "ok"
    /\ dl[2].result = "True"
    /\ exitCode = <<1>>

\* C4: cleanup() never raises: whatever exists and whatever removal fails,
\* the deployment directory, the artifact file and the leftover directory
\* are each attempted once, and cleanup mode exits with code 0.
C4_CleanupNeverRaises ==
    InTrace("cleanup") =>
        /\ Exited
        /\ uncaught = "none"
        /\ exitCode = <<0>>
        /\ trace = <<[op |-> "cleanup", exc |-> "none"]>>
        /\ Len(cl) = (IF Supported THEN 3 ELSE 1)
        /\ cl[1].target = deployDir
        /\ Supported =>
              /\ cl[2].target = <<ARTIFACT_NAME \o
                                   (IF PLATFORM = sWindows
                                    THEN <<".","z","i","p">>
                                    ELSE <<".","d","m","g">>)>>
              /\ cl[3].target \notin {cl[1].target, cl[2].target}

C4_Witness ==
    /\ Exited
    /\ exitCode = <<0>>
    /\ Len(cl) = 3
    /\ ~cl[1].ok
    /\ cl[2].ok
    /\ ~cl[3].ok

\* C5: after a completed Build->Package run, a cleanup() whose removals all
\* succeed leaves none of the paths that run created.
C5_CleanupRemovesWhatPackagerCreated ==
    ( /\ Exited
      /\ InTrace("cleanup")
      /\ created # {}
      /\ \A i \in DOMAIN cl : cl[i].ok )
    => \A p \in created : p \notin DOMAIN fs

\* C6: a build that exits non-zero ends the process with -1 before any
\* packaging step; a disk-image tool that exits non-zero ends it with -1;
\* each tool was run once, cleanup() was not run and the deployment
\* directory is as the build left it.
C6_ToolFailureIsFatal ==
    /\ Failed("build") =>
          /\ Exited
          /\ exitCode = <<-1>>
          /\ LastOp = "build"
          /\ \A i \in DOMAIN trace : trace[i].op \notin PackagingOps
          /\ calls = <<NUITKA_BUILD>>
          /\ cl = <<>>
          /\ DeployTree(fs) = deploySnap
    /\ Failed("create-dmg") =>
          /\ Exited
          /\ exitCode = <<-1>>
          /\ LastOp = "create-dmg"
          /\ calls = <<NUITKA_BUILD, CREATE_DMG>>
          /\ cl = <<>>
          /\ DeployTree(fs) = deploySnap

C6_Witness ==
    /\ Exited
    /\ exitCode = <<-1>>
    /\ Failed("create-dmg")
    /\ bundleDir \in DOMAIN fs

\* The artifact that holds exactly the files of the build b
ExpectedArtifact(b) ==
    IF PLATFORM = sWindows
    THEN File([e \in {<<foldername>> \o r : r \in DOMAIN b} |-> b[Tail(e)]])
    ELSE File([e \in {<<>>} \cup {<<sBundle>> \o r : r \in DOMAIN b} |->
                  IF e = <<>> THEN Dir ELSE b[Tail(e)]])

Packaged == Exited /\ exitCode = <<0>> /\ Supported /\ InTrace("build")

PrevPackaged ==
    /\ prev.exitCode = <<0>>
    /\ prev.built # <<>>

sWindows10 == <<"w","i","n","d","o","w","s","1","0">>

sAmd64 == <<"-","a","m","d","6","4">>

NamePrefix == APPLICATION_NAME \o sDash \o APPLICATION_VERSION \o sDash

AtOrBelowThreshold ==
    { <<"5",".","1","5",".","2">>, <<"6",".","4",".","2">>,
      <<"6",".","4",".","3">> }

sArm64 == <<"-","a","r","m","6","4">>

\* C9: on Darwin the artifact name carries macOS-10.9 exactly for the
\* versions at or below 6.4.3 and macOS-11.0 exactly for those above, 6.4.10
\* and 6.10.0 being above.
C9_DarwinMinimumOsTag ==
    PLATFORM = sDarwin =>
        ARTIFACT_NAME =
            NamePrefix
            \o (IF PYSIDE6_VERSION \in AtOrBelowThreshold THEN sMacOld ELSE sMacNew)
            \o sArm64

C9_Witness ==
    /\ PLATFORM = sDarwin
    /\ PYSIDE6_VERSION = <<"6",".","4",".","1","0">>
    /\ Packaged
    /\ dmgPath = <<NamePrefix \o sMacNew \o sArm64 \o <<".","d","m","g">>>>
    /\ dmgPath \in DOMAIN fs

\* C10: an invocation runs one mode: with -c only cleanup(), with -d and
\* without -c only download(), and the build and the packaging only with
\* neither flag.
C10_OneModePerInvocation ==
    /\ args.cleanup =>
          /\ \A i \in DOMAIN trace : trace[i].op = "cleanup"
          /\ dl = <<>>
          /\ calls = <<>>
    /\ (args.download /\ ~args.cleanup) =>
          /\ \A i \in DOMAIN trace : trace[i].op = "download"
          /\ cl = <<>>
          /\ calls = <<>>
    /\ (~args.download /\ ~args.cleanup) =>
          /\ \A i \in DOMAIN trace : trace[i].op \notin {"cleanup", "download"}
          /\ cl = <<>>
          /\ dl = <<>>
    /\ Cardinality({i \in DOMAIN trace : trace[i].op \in {"cleanup", "download"}}) <= 1
    /\ Exited => trace # <<>>

C10_Witness ==
    /\ args.cleanup
    /\ args.download
    /\ Exited
    /\ trace = <<[op |-> "cleanup", exc |-> "none"]>>
    /\ dl = <<>>

=============================================================================
